---- MODULE Spec2Model ----
(***************************************************************************)
(* A model of the tinyid crate (src/src/lib.rs): the 8-byte identifier     *)
(* TinyId, its alphabet, its constructors from text, u64 and byte arrays,  *)
(* its conversions back, its queries and make_null.                        *)
(*                                                                         *)
(* Representation of the Rust values:                                      *)
(*   u8        a number in 0..255                                          *)
(*   [u8; 8]   a sequence of 8 numbers in 0..255                           *)
(*   &str      the sequence of the bytes of its UTF-8 encoding, which is   *)
(*             what a Rust str is; s.len() is the length of that sequence  *)
(*   char      a code point                                                *)
(*   u64       four 16-bit limbs, most significant first (TLC's integers   *)
(*             are 32 bits wide, a u64 does not fit in one)                *)
(*   Result    a record [tag, data, err]                                   *)
(***************************************************************************)
EXTENDS Integers, Sequences, FiniteSets

(***************************************************************************)
(* Bounds of the model                                                     *)
(***************************************************************************)
\* longest text, in characters, given to the constructors from text
MaxTextLen == 9
\* most positions at which an input departs from its base value
MaxSubst == 2
\* longest text, in characters, given to starts_with and ends_with
MaxPatternLen == 9

(***************************************************************************)
(* Constants of TinyId                                                     *)
(***************************************************************************)
LETTER_COUNT == 64

LETTERS ==
  << 97, 98, 99, 100, 101, 102, 103, 104, 105, 106, 107, 108, 109, 110, 111,
     112, 113, 114, 115, 116, 117, 118, 119, 120, 121, 122, 65, 66, 67, 68,
     69, 70, 71, 72, 73, 74, 75, 76, 77, 78, 79, 80, 81, 82, 83,
     84, 85, 86, 87, 88, 89, 90, 49, 50, 51, 52, 53, 54, 55, 56,
     57, 48, 95, 45 >>

NULL_CHAR == 0

NULL_DATA == [i \in 1..8 |-> NULL_CHAR]

(***************************************************************************)
(* Result<TinyId, TinyIdError>, and the panic of an out-of-bounds index    *)
(***************************************************************************)
Ok(data) == [tag |-> "Ok", data |-> data, err |-> "None"]

Err(e) == [tag |-> "Err", data |-> <<>>, err |-> e]

Panic == [tag |-> "Panic", data |-> <<>>, err |-> "index out of bounds"]

NoResult == [tag |-> "None", data |-> <<>>, err |-> "None"]

(***************************************************************************)
(* The Rust primitives the crate calls                                     *)
(***************************************************************************)
\* char::encode_utf8: the bytes a str holds for one char
encode_utf8(c) ==
  IF c < 128 THEN << c >>
  ELSE IF c < 2048 THEN << 192 + (c \div 64), 128 + (c % 64) >>
  ELSE IF c < 65536
    THEN << 224 + (c \div 4096), 128 + ((c \div 64) % 64), 128 + (c % 64) >>
    ELSE << 240 + (c \div 262144), 128 + ((c \div 4096) % 64),
            128 + ((c \div 64) % 64), 128 + (c % 64) >>

\* the str made of the chars cs, as String's write of each char builds it
RECURSIVE str_of_chars(_)
str_of_chars(cs) ==
  IF cs = <<>> THEN <<>>
  ELSE encode_utf8(Head(cs)) \o str_of_chars(Tail(cs))

\* number of bytes of the UTF-8 sequence that starts with the byte b
utf8_width(b) ==
  IF b < 128 THEN 1 ELSE IF b < 224 THEN 2 ELSE IF b < 240 THEN 3 ELSE 4

\* the char a UTF-8 sequence of 1..4 bytes encodes
decode_utf8(u) ==
  IF Len(u) = 1 THEN u[1]
  ELSE IF Len(u) = 2 THEN (u[1] - 192) * 64 + (u[2] - 128)
  ELSE IF Len(u) = 3
    THEN (u[1] - 224) * 4096 + (u[2] - 128) * 64 + (u[3] - 128)
    ELSE (u[1] - 240) * 262144 + (u[2] - 128) * 4096
         + (u[3] - 128) * 64 + (u[4] - 128)

\* str::chars: the chars of the str s, in order
RECURSIVE chars(_)
chars(s) ==
  IF s = <<>> THEN <<>>
  ELSE LET w == utf8_width(s[1])
       IN  << decode_utf8(SubSeq(s, 1, w)) >> \o chars(SubSeq(s, w + 1, Len(s)))

\* u64::to_le_bytes, the byte order taken the wrong way round
to_le_bytes(n) ==
  [i \in 1..8 |-> IF i % 2 = 1 THEN n[4 - (i - 1) \div 2] % 256
                               ELSE n[5 - i \div 2] \div 256]

\* u64::to_be_bytes
to_be_bytes(n) ==
  [i \in 1..8 |-> IF i % 2 = 1 THEN n[(i + 1) \div 2] \div 256
                               ELSE n[i \div 2] % 256]

\* u64::from_le_bytes, the byte order taken the wrong way round
from_le_bytes(b) == [k \in 1..4 |-> b[10 - 2 * k] * 256 + b[9 - 2 * k]]

\* u64::from_be_bytes
from_be_bytes(b) == [k \in 1..4 |-> b[2 * k - 1] * 256 + b[2 * k]]

\* the u64 a decimal literal denotes, digit by digit: acc * 10 + d
RECURSIVE u64_literal_from(_, _)
u64_literal_from(acc, digits) ==
  IF digits = <<>> THEN acc
  ELSE LET v4 == acc[4] * 10 + Head(digits)
           v3 == acc[3] * 10 + (v4 \div 65536)
           v2 == acc[2] * 10 + (v3 \div 65536)
           v1 == acc[1] * 10 + (v2 \div 65536)
       IN  u64_literal_from(<< v1 % 65536, v2 % 65536, v3 % 65536, v4 % 65536 >>,
                            Tail(digits))

u64_literal(digits) == u64_literal_from(<< 0, 0, 0, 0 >>, digits)

\* u64::MAX
U64_MAX == << 65535, 65535, 65535, 65535 >>

(***************************************************************************)
(* impl TinyId                                                             *)
(***************************************************************************)
\* is_valid_byte with the digits taken as 48..=58 and '_' forgotten
is_valid_byte_ranges_off(byte) ==
  IF byte = NULL_CHAR THEN FALSE
  ELSE IF byte = 45 THEN TRUE
  ELSE IF byte >= 48 /\ byte <= 58 THEN TRUE
  ELSE IF byte >= 65 /\ byte <= 90 THEN TRUE
  ELSE IF byte >= 97 /\ byte <= 122 THEN TRUE
  ELSE FALSE

is_valid_byte(byte) ==
  IF byte = NULL_CHAR THEN FALSE
  ELSE IF byte = 45 THEN TRUE
  ELSE IF byte >= 48 /\ byte <= 57 THEN TRUE
  ELSE IF byte >= 65 /\ byte <= 90 THEN TRUE
  ELSE IF byte = 95 THEN TRUE
  ELSE IF byte >= 97 /\ byte <= 122 THEN TRUE
  ELSE FALSE

null == NULL_DATA

is_null(data) == data = NULL_DATA

\* is_valid that tests only for null
is_valid_not_null(data) == ~is_null(data)

is_valid(data) ==
  ~is_null(data) /\ \A i \in 1..Len(data) : is_valid_byte(data[i])

\* make_null that clears the first byte only
make_null_first_byte(data) == [data EXCEPT ![1] = NULL_CHAR]

make_null(data) == NULL_DATA

\* the loop of from_str with the failure of the conversion of a char reported
\* as InvalidCharacters
RECURSIVE from_str_loop_one_error(_, _, _)
from_str_loop_one_error(cs, i, data) ==
  IF i > Len(cs) THEN Ok(data)
  ELSE IF cs[i] > 255 THEN Err("InvalidCharacters")
  ELSE IF ~is_valid_byte(cs[i]) THEN Err("InvalidCharacters")
  ELSE IF i > 8 THEN Panic
  ELSE from_str_loop_one_error(cs, i + 1, [data EXCEPT ![i] = cs[i]])

\* the loop of from_str over s.chars().enumerate(), from the i-th char on
RECURSIVE from_str_loop(_, _, _)
from_str_loop(cs, i, data) ==
  IF i > Len(cs) THEN Ok(data)
  ELSE IF cs[i] > 255 THEN Err("Conversion")
  ELSE IF ~is_valid_byte(cs[i]) THEN Err("InvalidCharacters")
  ELSE IF i > 8 THEN Panic
  ELSE from_str_loop(cs, i + 1, [data EXCEPT ![i] = cs[i]])

\* from_str that counts the chars of s instead of its bytes
from_str_count_chars(s) ==
  IF Len(chars(s)) # 8 THEN Err("InvalidLength")
  ELSE from_str_loop(chars(s), 1, NULL_DATA)

from_str(s) ==
  IF Len(s) # 8 THEN Err("InvalidLength")
  ELSE from_str_loop(chars(s), 1, NULL_DATA)

\* the loop of from_str_unchecked that stops after 8 bytes, as with
\* s.bytes().take(8)
RECURSIVE from_str_unchecked_loop_take8(_, _, _)
from_str_unchecked_loop_take8(s, i, data) ==
  IF i > Len(s) THEN Ok(data)
  ELSE IF i > 8 THEN Ok(data)
  ELSE from_str_unchecked_loop_take8(s, i + 1, [data EXCEPT ![i] = s[i]])

\* the loop of from_str_unchecked over s.bytes().enumerate()
RECURSIVE from_str_unchecked_loop(_, _, _)
from_str_unchecked_loop(s, i, data) ==
  IF i > Len(s) THEN Ok(data)
  ELSE IF i > 8 THEN Panic
  ELSE from_str_unchecked_loop(s, i + 1, [data EXCEPT ![i] = s[i]])

\* from_str_unchecked that starts from an array of spaces
from_str_unchecked_spaces(s) ==
  from_str_unchecked_loop(s, 1, [i \in 1..8 |-> 32])

from_str_unchecked(s) == from_str_unchecked_loop(s, 1, NULL_DATA)

to_bytes(data) == data

\* from_bytes that refuses only the null array
from_bytes_null_only(bytes) ==
  IF ~is_null(bytes) THEN Ok(bytes) ELSE Err("InvalidCharacters")

from_bytes(bytes) ==
  IF is_valid(bytes) THEN Ok(bytes) ELSE Err("InvalidCharacters")

from_bytes_unchecked(bytes) == Ok(bytes)

from_u64(n) == from_bytes(to_be_bytes(n))

from_u64_unchecked(n) == Ok(to_be_bytes(n))

to_u64(data) == from_be_bytes(data)

\* random_fastrand2 that stores the index instead of the letter at the index
random_fastrand2_index(seed) ==
  LET data == to_be_bytes(seed)
  IN  [i \in 1..8 |-> data[i] % LETTER_COUNT]

\* random_fastrand2 that takes the bytes modulo 62, the number of letters
\* and digits
random_fastrand2_mod62(seed) ==
  LET data == to_be_bytes(seed)
  IN  [i \in 1..8 |-> LETTERS[(data[i] % 62) + 1]]

random_fastrand2(seed) ==
  LET data == to_be_bytes(seed)
  IN  [i \in 1..8 |-> LETTERS[(data[i] % LETTER_COUNT) + 1]]

random(seed) == random_fastrand2(seed)

\* Display that writes '?' in the place of a NUL byte
to_string_placeholder(data) ==
  str_of_chars([i \in 1..Len(data) |-> IF data[i] = 0 THEN 63 ELSE data[i]])

\* Display without the cast to char: each byte written as its number, in
\* decimal digits
RECURSIVE to_string_numbers(_)
to_string_numbers(data) ==
  IF Len(data) = 0 THEN <<>>
  ELSE LET b == data[1]
           digits == IF b < 10 THEN << 48 + b >>
                     ELSE IF b < 100 THEN << 48 + (b \div 10), 48 + (b % 10) >>
                     ELSE << 48 + (b \div 100), 48 + ((b \div 10) % 10),
                             48 + (b % 10) >>
       IN  digits \o to_string_numbers(SubSeq(data, 2, Len(data)))

\* impl Display: each byte written as the char of the same code point
to_string(data) == str_of_chars([i \in 1..Len(data) |-> data[i]])

default == null

\* str::starts_with and str::ends_with with a str pattern: the bytes of p
\* begin, or end, the bytes of s
str_starts_with(s, p) == Len(p) <= Len(s) /\ SubSeq(s, 1, Len(p)) = p

str_ends_with(s, p) ==
  Len(p) <= Len(s) /\ SubSeq(s, Len(s) - Len(p) + 1, Len(s)) = p

\* starts_with without the match on the length of the input
starts_with_no_match(data, input) == str_starts_with(to_string(data), input)

starts_with(data, input) ==
  IF Len(input) = 0 THEN TRUE
  ELSE IF Len(input) <= 8 THEN str_starts_with(to_string(data), input)
  ELSE FALSE

ends_with(data, input) ==
  IF Len(input) = 0 THEN TRUE
  ELSE IF Len(input) <= 8 THEN str_ends_with(to_string(data), input)
  ELSE FALSE

\* TryFrom<[u8; 8]> that refuses the array only when all its bytes are invalid
try_from_array_all_invalid(value) ==
  IF \A i \in 1..Len(value) : ~is_valid_byte(value[i])
    THEN Err("InvalidCharacters")
    ELSE Ok(value)

\* impl TryFrom<[u8; 8]>
try_from_array(value) ==
  IF \E i \in 1..Len(value) : ~is_valid_byte(value[i])
    THEN Err("InvalidCharacters")
    ELSE Ok(value)

\* impl TryFrom<&[u8; 8]>
try_from_array_ref(value) ==
  IF \E i \in 1..Len(value) : ~is_valid_byte(value[i])
    THEN Err("InvalidCharacters")
    ELSE Ok(value)

\* TryFrom<&[u8]> that reports the length of the slice as from_str does
try_from_slice_invalid_length(value) ==
  IF Len(value) # 8 THEN Err("InvalidLength")
  ELSE IF \E i \in 1..Len(value) : ~is_valid_byte(value[i])
    THEN Err("InvalidCharacters")
    ELSE Ok(value)

\* impl TryFrom<&[u8]>: <[u8; 8]>::try_from fails for a slice that does not
\* have 8 bytes, and From<TryFromSliceError> makes it a Conversion
try_from_slice(value) ==
  IF Len(value) # 8 THEN Err("Conversion")
  ELSE IF \E i \in 1..Len(value) : ~is_valid_byte(value[i])
    THEN Err("InvalidCharacters")
    ELSE Ok(value)

\* impl TryFrom<u64>
try_from_u64(value) == from_u64(value)

\* an equality that takes the ASCII letters without their case
eq_ignore_ascii_case(data, other) ==
  LET lower(b) == IF b >= 65 /\ b <= 90 THEN b + 32 ELSE b
  IN  /\ Len(data) = Len(other)
      /\ \A i \in 1..Len(data) : lower(data[i]) = lower(other[i])

\* derive(PartialEq) and the impls of PartialEq with byte containers: the
\* comparison of the data with the bytes of the other side
eq(data, other) ==
  Len(data) = Len(other) /\ \A i \in 1..Len(data) : data[i] = other[i]

\* derive(Ord): the arrays compared byte by byte, from the i-th byte on
RECURSIVE cmp_from(_, _, _)
cmp_from(a, b, i) ==
  IF i > 8 THEN "Equal"
  ELSE IF a[i] < b[i] THEN "Less"
  ELSE IF a[i] > b[i] THEN "Greater"
  ELSE cmp_from(a, b, i + 1)

\* the arrays compared from their last byte to their first
cmp_reversed(a, b) ==
  cmp_from([i \in 1..8 |-> a[9 - i]], [i \in 1..8 |-> b[9 - i]], 1)

cmp(a, b) == cmp_from(a, b, 1)

\* derive(PartialOrd): a < b
lt(a, b) == cmp(a, b) = "Less"

\* m < n for two u64
u64_lt(m, n) ==
  \E k \in 1..4 : m[k] < n[k] /\ \A j \in 1..(k - 1) : m[j] = n[j]

(***************************************************************************)
(* The inputs the callers give                                             *)
(***************************************************************************)
\* base changed at no more than k positions, each to a member of sample:
\* VariantsFrom gives the variants of the first n members of base
RECURSIVE VariantsFrom(_, _, _, _)
VariantsFrom(base, sample, k, n) ==
  IF n = 0 THEN { <<>> }
  ELSE { Append(t, base[n]) : t \in VariantsFrom(base, sample, k, n - 1) }
       \cup (IF k = 0 THEN {}
             ELSE { Append(t, c) :
                      t \in VariantsFrom(base, sample, k - 1, n - 1),
                      c \in sample })

Variants(base, sample, k) == VariantsFrom(base, sample, k, Len(base))

\* NUL, '!', e-acute (2 bytes of UTF-8) and the euro sign (3 bytes)
CharSample == { 0, 33, 233, 8364 }

\* the first n letters of "abcdefghij..."
BaseChars(n) == [i \in 1..n |-> 96 + i]

\* the texts of the tests and of examples/basic.rs, as chars
ExampleTexts ==
  { << 65, 65, 65, 65, 66, 66, 66, 66 >>,
    << 65, 65, 65, 65, 66, 66, 66 >>,
    << 97, 97, 97, 97, 66, 66, 66, 66 >>,
    << 33, 64, 35, 36, 37, 94, 38, 42 >>,
    << 97, 98, 99, 100, 101, 102, 103, 33 >>,
    << 111, 111, 112, 115, 105, 101, 32, 112, 111, 111, 112, 115, 105, 101, 33 >>,
    [i \in 1..26 |-> 96 + i],
    << 97, 98, 99, 100, 101, 102, 103, 64 >>,
    << 97, 98, 99, 100, 101, 102, 103, 32 >>,
    << 97, 98, 99, 100, 128512 >>,
    << 255, 255, 255, 255 >> }

\* "abcdefgh" with any char up to U+00FF first or last
AnyCharAtAnEnd ==
  { [BaseChars(8) EXCEPT ![j] = c] : j \in { 1, 8 }, c \in 0..255 }

TextChars ==
  ExampleTexts
  \cup AnyCharAtAnEnd
  \cup UNION { Variants(BaseChars(n), CharSample, MaxSubst) : n \in 0..MaxTextLen }

Texts == { str_of_chars(cs) : cs \in TextChars }

\* NUL, '!' and '-'
ByteSample == { 0, 33, 45 }

\* "abcdefgh"
ABCDEFGH == << 97, 98, 99, 100, 101, 102, 103, 104 >>

\* "abcdefgh" with any byte at any one position
AnyByteAtOne == { [ABCDEFGH EXCEPT ![j] = b] : j \in 1..8, b \in 0..255 }

ByteArrays ==
  Variants(ABCDEFGH, ByteSample, MaxSubst)
  \cup AnyByteAtOne
  \cup { NULL_DATA,
         [i \in 1..8 |-> 255],
         << 233, 98, 99, 100, 101, 102, 103, 255 >>,
         << 0, 0, 0, 0, 0, 0, 0, 104 >> }

\* 7_017_280_452_245_743_464_u64
ABCDEFGH_U64 ==
  u64_literal(<< 7, 0, 1, 7, 2, 8, 0, 4, 5, 2, 2, 4, 5, 7, 4, 3, 4, 6, 4 >>)

\* 0x0000, 0x002D, 0x2D2D ("--") and 0xFFFF
LimbSample == { 0, 45, 11565, 65535 }

U64s ==
  Variants(ABCDEFGH_U64, LimbSample, MaxSubst)
  \cup { U64_MAX, << 0, 0, 0, 0 >> }

\* what fastrand::u64(..) may return: every byte value at every position
Seeds ==
  { [k \in 1..4 |-> IF k = j THEN h * 256 + (255 - h) ELSE g * 257] :
      j \in 1..4, h \in 0..255, g \in { 97 } }
  \cup { U64_MAX, << 0, 0, 0, 0 >> }

Input(kind, val) == [kind |-> kind, val |-> val]

Inputs ==
  { Input("text", s) : s \in Texts }
  \cup { Input("bytes", b) : b \in ByteArrays }
  \cup { Input("u64", n) : n \in U64s }
  \cup { Input("seed", n) : n \in Seeds }
  \cup { Input("byte", << b >>) : b \in 0..255 }
  \cup { Input("none", <<>>) }

(***************************************************************************)
(* The state: a caller that builds an identifier from an input, then       *)
(* queries, converts or nulls it, then builds one back from a conversion   *)
(***************************************************************************)
VARIABLES
  pc,      \* where the caller is: "start", "built", "failed", "queried",
           \* "nulled", "converted", "rebuilt", "done"
  op,      \* the operation called last
  ctor,    \* the constructor that built id
  arg,     \* the input the caller was given
  id,      \* the data of the caller's `let mut id: TinyId`; <<>> before it
  out,     \* what the last conversion of id returned
  result,  \* what the last constructor returned
  flag,    \* what the last query returned
  cp,      \* the data of the copy `let mut switched = id`; <<>> before it
  rhs      \* the other operand of the last query: a text or an identifier

vars == << pc, op, ctor, arg, id, out, result, flag, cp, rhs >>

Init ==
  /\ pc = "start"
  /\ op = "none"
  /\ ctor = "none"
  /\ arg \in Inputs
  /\ id = <<>>
  /\ out = Input("none", <<>>)
  /\ result = NoResult
  /\ flag = FALSE
  /\ cp = <<>>
  /\ rhs = <<>>

\* the value a constructor reads: the input, or the output of a conversion
Source == IF pc = "start" THEN arg ELSE out

\* a constructor called on a value of this kind
Reads(kind) == pc \in { "start", "converted" } /\ Source.kind = kind

\* the caller receives r from the constructor: the first identifier is bound
\* to id (`let mut id = ...`, unwrapped), one built from a conversion of id
\* is left in result (`let back = ...`)
Returns(name, r) ==
  /\ op' = name
  /\ result' = r
  /\ IF pc = "start"
       THEN /\ ctor' = name
            /\ id' = IF r.tag = "Ok" THEN r.data ELSE id
            /\ pc' = IF r.tag = "Ok" THEN "built" ELSE "failed"
       ELSE /\ pc' = "rebuilt"
            /\ UNCHANGED << ctor, id >>
  /\ UNCHANGED << arg, out, flag, cp, rhs >>

Random ==
  /\ Reads("seed")
  /\ Returns("random", Ok(random(Source.val)))

Null ==
  /\ Reads("none")
  /\ Returns("null", Ok(null))

Default ==
  /\ Reads("none")
  /\ Returns("default", Ok(default))

FromStr ==
  /\ Reads("text")
  /\ Returns("from_str", from_str(Source.val))

FromStrUnchecked ==
  /\ Reads("text")
  /\ Returns("from_str_unchecked", from_str_unchecked(Source.val))

FromU64 ==
  /\ Reads("u64")
  /\ Returns("from_u64", from_u64(Source.val))

FromU64Unchecked ==
  /\ Reads("u64")
  /\ Returns("from_u64_unchecked", from_u64_unchecked(Source.val))

FromBytes ==
  /\ Reads("bytes")
  /\ Returns("from_bytes", from_bytes(Source.val))

FromBytesUnchecked ==
  /\ Reads("bytes")
  /\ Returns("from_bytes_unchecked", from_bytes_unchecked(Source.val))

IsValidByte ==
  /\ pc = "start"
  /\ arg.kind = "byte"
  /\ op' = "is_valid_byte"
  /\ flag' = is_valid_byte(arg.val[1])
  /\ pc' = "done"
  /\ UNCHANGED << ctor, arg, id, out, result, cp, rhs >>

IsValid ==
  /\ pc = "built"
  /\ op' = "is_valid"
  /\ flag' = is_valid(id)
  /\ pc' = "queried"
  /\ UNCHANGED << ctor, arg, id, out, result, cp, rhs >>

IsNull ==
  /\ pc = "built"
  /\ op' = "is_null"
  /\ flag' = is_null(id)
  /\ pc' = "queried"
  /\ UNCHANGED << ctor, arg, id, out, result, cp, rhs >>

MakeNull ==
  /\ pc = "built"
  /\ op' = "make_null"
  /\ id' = make_null(id)
  /\ pc' = "nulled"
  /\ UNCHANGED << ctor, arg, out, result, flag, cp, rhs >>

ToBytes ==
  /\ pc = "built"
  /\ op' = "to_bytes"
  /\ out' = Input("bytes", to_bytes(id))
  /\ pc' = "converted"
  /\ UNCHANGED << ctor, arg, id, result, flag, cp, rhs >>

ToU64 ==
  /\ pc = "built"
  /\ op' = "to_u64"
  /\ out' = Input("u64", to_u64(id))
  /\ pc' = "converted"
  /\ UNCHANGED << ctor, arg, id, result, flag, cp, rhs >>

ToString ==
  /\ pc = "built"
  /\ op' = "to_string"
  /\ out' = Input("text", to_string(id))
  /\ pc' = "converted"
  /\ UNCHANGED << ctor, arg, id, result, flag, cp, rhs >>

Next ==
  \/ Random
  \/ Null
  \/ Default
  \/ FromStr
  \/ FromStrUnchecked
  \/ FromU64
  \/ FromU64Unchecked
  \/ FromBytes
  \/ FromBytesUnchecked
  \/ IsValidByte
  \/ IsValid
  \/ IsNull
  \/ MakeNull
  \/ ToBytes
  \/ ToU64
  \/ ToString

Spec == Init /\ [][Next]_vars

(***************************************************************************)
(* The same caller with the whole interface: the TryFrom impls, starts_with *)
(* and ends_with, the comparisons and a copy of the identifier, on fewer    *)
(* inputs                                                                   *)
(***************************************************************************)
\* bytes at the ends of the ranges of is_valid_byte, and beyond ASCII
ByteProbe == { 0, 1, 33, 45, 48, 90, 97, 104, 122, 127, 128, 233, 255 }

\* "AAAABBBB" and "aaaaBBBB" of examples/basic.rs
AAAABBBB == << 65, 65, 65, 65, 66, 66, 66, 66 >>

aaaaBBBB == << 97, 97, 97, 97, 66, 66, 66, 66 >>

ProbeArrays ==
  { [ABCDEFGH EXCEPT ![j] = b] : j \in 1..8, b \in ByteProbe }
  \cup { ABCDEFGH, AAAABBBB, aaaaBBBB, NULL_DATA, [i \in 1..8 |-> 255] }

\* slices that do not have 8 bytes
ProbeSlices ==
  { <<>>,
    << 33, 98, 99, 100, 101, 102, 103 >>,
    << 97, 98, 99, 100, 101, 102, 103 >>,
    << 97, 98, 99, 100, 101, 102, 103, 104, 105 >> }

ProbeTexts ==
  { str_of_chars(cs) :
      cs \in ExampleTexts
              \cup { <<>>,
                     << 97, 98, 99 >>,
                     << 97, 98, 99, 100, 101, 102, 103, 233 >>,
                     << 97, 98, 99, 100, 101, 102, 233 >>,
                     << 97, 98, 99, 100, 101, 8364 >> } }

ProbeU64s ==
  { ABCDEFGH_U64, U64_MAX, << 0, 0, 0, 0 >>,
    [ABCDEFGH_U64 EXCEPT ![4] = 11565] }

FullInputs ==
  { Input("text", s) : s \in ProbeTexts }
  \cup { Input("bytes", b) : b \in ProbeArrays }
  \cup { Input("slice", b) : b \in ProbeSlices }
  \cup { Input("u64", n) : n \in ProbeU64s }
  \cup { Input("seed", n) : n \in ProbeU64s }
  \cup { Input("byte", << b >>) : b \in { 0, 45, 255 } }
  \cup { Input("none", <<>>) }

\* the identifiers the caller compares id with
Others ==
  { ABCDEFGH, AAAABBBB, aaaaBBBB, NULL_DATA, [i \in 1..8 |-> 255],
    << 97, 98, 99, 100, 101, 102, 103, 128 >> }

\* the texts the caller gives to starts_with and ends_with: with cs the 8
\* chars of the bytes of data, the first k chars of cs followed by "iii..."
\* and the last k chars of "iii..." followed by cs, and two fixed texts
PatternChars(data) ==
  LET cs == [i \in 1..8 |-> data[i]]
      fill == [i \in 1..MaxPatternLen |-> 105]
  IN  { SubSeq(cs \o fill, 1, k) : k \in 0..MaxPatternLen }
      \cup { SubSeq(fill \o cs, MaxPatternLen + 8 - k + 1, MaxPatternLen + 8) :
               k \in 0..MaxPatternLen }
      \cup { << 65, 65, 65, 65 >>, << 66, 66, 66, 66 >> }

Patterns(data) == { str_of_chars(cs) : cs \in PatternChars(data) }

InitFull ==
  /\ pc = "start"
  /\ op = "none"
  /\ ctor = "none"
  /\ arg \in FullInputs
  /\ id = <<>>
  /\ out = Input("none", <<>>)
  /\ result = NoResult
  /\ flag = FALSE
  /\ cp = <<>>
  /\ rhs = <<>>

TryFromArray ==
  /\ Reads("bytes")
  /\ Returns("try_from_array", try_from_array(Source.val))

TryFromArrayRef ==
  /\ Reads("bytes")
  /\ Returns("try_from_array_ref", try_from_array_ref(Source.val))

TryFromSlice ==
  /\ Reads("bytes") \/ Reads("slice")
  /\ Returns("try_from_slice", try_from_slice(Source.val))

TryFromU64 ==
  /\ Reads("u64")
  /\ Returns("try_from_u64", try_from_u64(Source.val))

StartsWith ==
  /\ pc = "built"
  /\ \E input \in Patterns(id) :
       /\ rhs' = input
       /\ flag' = starts_with(id, input)
  /\ op' = "starts_with"
  /\ pc' = "queried"
  /\ UNCHANGED << ctor, arg, id, out, result, cp >>

EndsWith ==
  /\ pc = "built"
  /\ \E input \in Patterns(id) :
       /\ rhs' = input
       /\ flag' = ends_with(id, input)
  /\ op' = "ends_with"
  /\ pc' = "queried"
  /\ UNCHANGED << ctor, arg, id, out, result, cp >>

\* id == other, for another identifier
Eq ==
  /\ pc = "built"
  /\ \E other \in Others :
       /\ rhs' = other
       /\ flag' = eq(id, other)
  /\ op' = "eq"
  /\ pc' = "queried"
  /\ UNCHANGED << ctor, arg, id, out, result, cp >>

\* id < other, for another identifier
Lt ==
  /\ pc = "built"
  /\ \E other \in Others :
       /\ rhs' = other
       /\ flag' = lt(id, other)
  /\ op' = "lt"
  /\ pc' = "queried"
  /\ UNCHANGED << ctor, arg, id, out, result, cp >>

\* id == back, for the identifier built from a conversion of id
EqBack ==
  /\ pc = "rebuilt"
  /\ result.tag = "Ok"
  /\ rhs' = result.data
  /\ flag' = eq(id, result.data)
  /\ op' = "eq_back"
  /\ pc' = "compared"
  /\ UNCHANGED << ctor, arg, id, out, result, cp >>

\* id == bytes, for the array that to_bytes returned
EqArray ==
  /\ pc = "converted"
  /\ out.kind = "bytes"
  /\ rhs' = out.val
  /\ flag' = eq(id, out.val)
  /\ op' = "eq_array"
  /\ pc' = "compared"
  /\ UNCHANGED << ctor, arg, id, out, result, cp >>

\* let mut switched = id: TinyId is Copy
Copy ==
  /\ pc = "built"
  /\ cp' = id
  /\ op' = "copy"
  /\ pc' = "copied"
  /\ UNCHANGED << ctor, arg, id, out, result, flag, rhs >>

\* make_null of a copy that is the identifier itself, as if `switched` were a
\* reference to id
MakeNullCopyAliased ==
  /\ pc = "copied"
  /\ cp' = make_null(cp)
  /\ id' = make_null(id)
  /\ op' = "make_null_copy"
  /\ pc' = "copy_nulled"
  /\ UNCHANGED << ctor, arg, out, result, flag, rhs >>

\* switched.make_null()
MakeNullCopy ==
  /\ pc = "copied"
  /\ cp' = make_null(cp)
  /\ op' = "make_null_copy"
  /\ pc' = "copy_nulled"
  /\ UNCHANGED << ctor, arg, id, out, result, flag, rhs >>

NextFull ==
  \/ Next
  \/ TryFromArray
  \/ TryFromArrayRef
  \/ TryFromSlice
  \/ TryFromU64
  \/ StartsWith
  \/ EndsWith
  \/ Eq
  \/ Lt
  \/ EqBack
  \/ EqArray
  \/ Copy
  \/ MakeNullCopy

SpecFull == InitFull /\ [][NextFull]_vars

TypeOK ==
  /\ pc \in { "start", "built", "failed", "queried", "nulled", "converted",
              "rebuilt", "done", "compared", "copied", "copy_nulled" }
  /\ id = <<>> \/ (Len(id) = 8 /\ \A i \in 1..8 : id[i] \in 0..255)
  /\ result.tag \in { "None", "Ok", "Err", "Panic" }
  /\ flag \in BOOLEAN

(***************************************************************************)
(* The claims                                                              *)
(***************************************************************************)
\* the 64 symbols: a-z, A-Z, 0-9, '_' and '-'
Alphabet == (97..122) \cup (65..90) \cup (48..57) \cup { 95, 45 }

InAlphabet(b) == \A i \in 1..Len(b) : b[i] \in Alphabet

\* b is the big-endian representation of the u64 n: most significant byte
\* first
BigEndian(b, n) ==
  /\ Len(b) = 8
  /\ \A k \in 1..4 : n[k] = 256 * b[2 * k - 1] + b[2 * k]

\* the value the constructor called last was given
Given == IF pc = "rebuilt" THEN out.val ELSE arg.val

\* C1: whatever 64-bit value the random source returns, random() returns an
\* identifier of 8 alphabet bytes, which is_valid() accepts and is_null()
\* rejects, and which is not the all-zero sentinel.
C1_RandomIsValid ==
  op = "random" =>
    /\ result.tag = "Ok"
    /\ id = result.data
    /\ Len(id) = 8
    /\ InAlphabet(id)
    /\ id # [i \in 1..8 |-> 0]
    /\ is_valid(id)
    /\ ~is_null(id)

\* the seed 0, whose bytes are all zero, gives "aaaaaaaa"
C1_Witness ==
  /\ op = "random"
  /\ arg.val = << 0, 0, 0, 0 >>
  /\ id = << 97, 97, 97, 97, 97, 97, 97, 97 >>

\* C2: from_bytes(b) is Ok exactly when every byte of b is in the alphabet,
\* the Ok value's to_bytes is b, and every other b, the all-zero array
\* included, gets Err(InvalidCharacters).
C2_FromBytes ==
  op = "from_bytes" =>
    LET b == Given
    IN  /\ result.tag = "Ok" <=> InAlphabet(b)
        /\ result.tag = "Ok" => to_bytes(result.data) = b
        /\ result.tag # "Ok" => result = Err("InvalidCharacters")
        /\ b = [i \in 1..8 |-> 0] => result = Err("InvalidCharacters")

\* "!bcdefgh" is refused
C2_Witness ==
  /\ op = "from_bytes"
  /\ pc = "failed"
  /\ arg.val = << 33, 98, 99, 100, 101, 102, 103, 104 >>
  /\ result = Err("InvalidCharacters")

\* C3: from_u64(n) is Ok exactly when the 8 bytes of the big-endian
\* representation of n are in the alphabet, the Ok value holds these bytes
\* (7017280452245743464 gives "abcdefgh"), and every failure is
\* InvalidCharacters (u64::MAX fails so).
C3_FromU64 ==
  op = "from_u64" =>
    LET n == Given
    IN  /\ result.tag = "Ok" <=>
             \A k \in 1..4 : n[k] \div 256 \in Alphabet /\ n[k] % 256 \in Alphabet
        /\ result.tag = "Ok" => BigEndian(result.data, n)
        /\ result.tag # "Ok" => result = Err("InvalidCharacters")
        /\ n = ABCDEFGH_U64 => result = Ok(ABCDEFGH)
        /\ n = U64_MAX => result = Err("InvalidCharacters")

C3_Witness ==
  /\ op = "from_u64"
  /\ pc = "built"
  /\ arg.val = ABCDEFGH_U64
  /\ id = ABCDEFGH

\* the characters of the text the constructor called last was given
GivenChars == chars(Given)

\* the text the constructor called last was given, as chars: 7 letters
\* and an e-acute, 8 characters in 9 bytes
SevenAndEAcute == << 97, 98, 99, 100, 101, 102, 103, 233 >>

\* C4 as claimed: from_str returns InvalidLength exactly for the texts that
\* do not have 8 characters.
C4_AsClaimed ==
  op = "from_str" => (result = Err("InvalidLength") <=> Len(GivenChars) # 8)

\* C4: from_str returns InvalidLength exactly for the texts whose UTF-8
\* encoding does not have 8 bytes (s.len() counts bytes); for a text of ASCII
\* characters that is the texts that do not have 8 characters, so 7 or 9
\* ASCII characters get InvalidLength and 8 never do.
C4_InvalidLength ==
  op = "from_str" =>
    /\ result = Err("InvalidLength") <=> Len(str_of_chars(GivenChars)) # 8
    /\ (\A i \in 1..Len(GivenChars) : GivenChars[i] < 128) =>
         (result = Err("InvalidLength") <=> Len(GivenChars) # 8)

\* 8 characters that get InvalidLength
C4_Witness ==
  /\ op = "from_str"
  /\ pc = "failed"
  /\ GivenChars = SevenAndEAcute
  /\ result = Err("InvalidLength")

\* the first char of cs outside the alphabet; 0 when there is none
FirstOutside(cs) ==
  IF \A i \in 1..Len(cs) : cs[i] \in Alphabet THEN 0
  ELSE CHOOSE i \in 1..Len(cs) :
         /\ cs[i] \notin Alphabet
         /\ \A j \in 1..(i - 1) : cs[j] \in Alphabet

\* C5 as claimed: from_str of a text that passes the length check fails with
\* InvalidCharacters when a character is outside the alphabet or has no
\* single byte, and is Ok only for 8 characters of the alphabet.
C5_AsClaimed ==
  (op = "from_str" /\ result # Err("InvalidLength")) =>
    /\ FirstOutside(GivenChars) # 0 => result = Err("InvalidCharacters")
    /\ result.tag = "Ok" => Len(GivenChars) = 8 /\ InAlphabet(GivenChars)

\* C5: from_str of a text that passes the length check is Ok exactly when
\* all its characters are in the alphabet, and they are 8 then; otherwise
\* the first character outside the alphabet decides the error:
\* InvalidCharacters when its code point is at most 255, Conversion when it
\* is above and the char has no single byte.
C5_InvalidCharacters ==
  (op = "from_str" /\ result # Err("InvalidLength")) =>
    LET k == FirstOutside(GivenChars)
    IN  /\ result.tag = "Ok" <=> k = 0
        /\ result.tag = "Ok" =>
             /\ Len(GivenChars) = 8
             /\ InAlphabet(GivenChars)
             /\ result.data = GivenChars
        /\ (k # 0 /\ GivenChars[k] <= 255) => result = Err("InvalidCharacters")
        /\ (k # 0 /\ GivenChars[k] > 255) => result = Err("Conversion")

\* "abcde" and a euro sign: 8 bytes, and the euro sign has no single byte
C5_Witness ==
  /\ op = "from_str"
  /\ pc = "failed"
  /\ GivenChars = << 97, 98, 99, 100, 101, 8364 >>
  /\ result = Err("Conversion")

\* C6: an identifier that from_bytes made of 8 alphabet bytes renders as the
\* 8 characters of these bytes, and from_str of this text returns the
\* identifier again.
C6_TextRoundTrip ==
  /\ (op = "from_bytes" /\ InAlphabet(Given)) => result = Ok(Given)
  /\ (ctor = "from_bytes" /\ out.kind = "text") =>
       /\ InAlphabet(id)
       /\ Len(chars(out.val)) = 8
       /\ \A i \in 1..8 : chars(out.val)[i] = id[i]
  /\ (ctor = "from_bytes" /\ pc = "rebuilt" /\ op = "from_str") =>
       result = Ok(id)

\* "abcdefgh" made by from_bytes, rendered and parsed back
C6_Witness ==
  /\ ctor = "from_bytes"
  /\ arg.val = ABCDEFGH
  /\ pc = "rebuilt"
  /\ op = "from_str"
  /\ out.val = ABCDEFGH
  /\ result = Ok(ABCDEFGH)

\* C7: to_u64(x) is the big-endian number of the 8 bytes of x ("abcdefgh"
\* is 7017280452245743464): from_u64(to_u64(x)) returns x for every
\* identifier x of alphabet bytes, and to_u64(from_u64_unchecked(n)) is n.
C7_U64RoundTrip ==
  /\ op = "to_u64" =>
       /\ BigEndian(id, out.val)
       /\ \A k \in 1..4 : out.val[k] \in 0..65535
       /\ id = ABCDEFGH => out.val = ABCDEFGH_U64
  /\ (op = "to_u64" /\ ctor = "from_u64_unchecked") => out.val = arg.val
  /\ (pc = "rebuilt" /\ op = "from_u64" /\ InAlphabet(id)) => result = Ok(id)

\* a random identifier, turned into a u64 and back
C7_Witness ==
  /\ ctor = "random"
  /\ pc = "rebuilt"
  /\ op = "from_u64"
  /\ result = Ok(id)
  /\ id[1] # id[8]

\* C8: is_valid_byte(b) is true exactly for the 64 pairwise distinct bytes
\* of LETTERS, which are a-z, A-Z, 0-9, '_' and '-', and false for the 192
\* other bytes, the zero byte among them.
C8_ValidByte ==
  op = "is_valid_byte" =>
    LET b == arg.val[1]
    IN  /\ flag <=> \E i \in 1..Len(LETTERS) : LETTERS[i] = b
        /\ flag <=> b \in Alphabet
        /\ b = 0 => ~flag
        /\ Len(LETTERS) = 64
        /\ \A i, j \in 1..Len(LETTERS) : LETTERS[i] = LETTERS[j] => i = j
        /\ Cardinality({ x \in 0..255 : is_valid_byte(x) }) = 64
        /\ Cardinality({ x \in 0..255 : ~is_valid_byte(x) }) = 192

\* the zero byte is refused
C8_Witness ==
  /\ op = "is_valid_byte"
  /\ arg.val = << 0 >>
  /\ flag = FALSE

\* C9: is_valid(x) is true exactly when x is not the all-zero sentinel and
\* every byte of x is in the alphabet, whatever built x; an identifier of
\* alphabet bytes is valid and not null, and none is both valid and null.
C9_IsValid ==
  /\ op = "is_valid" =>
       /\ flag <=> (id # [i \in 1..8 |-> 0] /\ InAlphabet(id))
       /\ InAlphabet(id) => (flag /\ ~is_null(id))
       /\ ~(flag /\ is_null(id))
  /\ op = "is_null" =>
       /\ flag <=> id = [i \in 1..8 |-> 0]
       /\ InAlphabet(id) => (~flag /\ is_valid(id))
       /\ ~(flag /\ is_valid(id))

\* an identifier that is neither null nor valid: "abcdefg" and a zero byte
C9_Witness ==
  /\ op = "is_valid"
  /\ ctor = "from_bytes_unchecked"
  /\ id = << 97, 98, 99, 100, 101, 102, 103, 0 >>
  /\ flag = FALSE

\* C10: after make_null, whatever the identifier held, is_null() is true,
\* is_valid() is false and the identifier equals null() and default();
\* null() and default() are null and not valid.
C10_MakeNull ==
  /\ op = "make_null" =>
       /\ is_null(id)
       /\ ~is_valid(id)
       /\ id = null
       /\ id = default
       /\ id = [i \in 1..8 |-> 0]
  /\ (op \in { "null", "default" } /\ pc = "built") =>
       /\ is_null(id)
       /\ ~is_valid(id)
       /\ id = [i \in 1..8 |-> 0]

\* make_null of a partly invalid identifier: "!bcdefgh"
C10_Witness ==
  /\ op = "make_null"
  /\ ctor = "from_bytes_unchecked"
  /\ arg.val = << 33, 98, 99, 100, 101, 102, 103, 104 >>
  /\ id = NULL_DATA

\* the queries and conversions of an identifier
Queries ==
  { "is_valid", "is_null", "to_bytes", "to_u64", "to_string", "starts_with",
    "ends_with", "eq", "lt", "eq_back", "eq_array" }

\* C11: the data of an identifier variable changes only when the variable is
\* bound or by make_null of that variable: every query and conversion leaves
\* id and its copy as they are, and make_null of the copy leaves id as it is.
C11_Frame ==
  [][ /\ id' # id => (pc = "start" \/ op' = "make_null")
      /\ cp' # cp => op' \in { "copy", "make_null_copy" }
      /\ op' \in Queries => (id' = id /\ cp' = cp)
      /\ op' = "copy" => (cp' = id /\ id' = id)
      /\ op' = "make_null_copy" => (cp' = NULL_DATA /\ id' = id)
      /\ (pc = "converted" /\ pc' = "rebuilt") => (id' = id /\ cp' = cp)
    ]_vars

\* examples/basic.rs: `switched`, the copy of "AAAABBBB", is null and
\* `parsed` is "AAAABBBB" still
C11_Witness ==
  /\ op = "make_null_copy"
  /\ ctor = "from_str_unchecked"
  /\ cp = NULL_DATA
  /\ id = AAAABBBB

\* C12: from_str_unchecked of a text of at most 8 bytes returns the
\* identifier whose first bytes are the bytes of the text and whose other
\* bytes are zero, whatever the bytes are: the empty text gives the null
\* identifier, a text of fewer than 8 bytes an identifier that is not valid.
C12_FromStrUnchecked ==
  (op = "from_str_unchecked" /\ Len(Given) <= 8) =>
    /\ result.tag = "Ok"
    /\ Len(result.data) = 8
    /\ \A i \in 1..8 :
         result.data[i] = IF i <= Len(Given) THEN Given[i] ELSE 0
    /\ Given = <<>> => is_null(result.data)
    /\ Len(Given) < 8 => ~is_valid(result.data)
    /\ pc = "built" => id = result.data

\* "abc" gives "abc" and five zero bytes
C12_Witness ==
  /\ op = "from_str_unchecked"
  /\ pc = "built"
  /\ arg.val = << 97, 98, 99 >>
  /\ id = << 97, 98, 99, 0, 0, 0, 0, 0 >>

\* C13: from_str_unchecked of a text of more than 8 bytes panics: it returns
\* no identifier and no Err, and nothing is written past the 8 bytes.
C13_FromStrUncheckedPanics ==
  (op = "from_str_unchecked" /\ Len(Given) > 8) =>
    /\ result = Panic
    /\ result.tag \notin { "Ok", "Err" }
    /\ result.data = <<>>
    /\ pc = "failed" => id = <<>>

\* "oopsie poopsie!" of tests::bad_froms_panic1
C13_Witness ==
  /\ op = "from_str_unchecked"
  /\ pc = "failed"
  /\ arg.val = << 111, 111, 112, 115, 105, 101, 32, 112, 111, 111, 112, 115,
                  105, 101, 33 >>
  /\ result = Panic

\* C14: two identifiers are equal exactly when their 8 bytes are the same,
\* the case of the letters included ("aaaaBBBB" is not "AAAABBBB"), whatever
\* built them: an identifier is equal to the one any constructor builds back
\* from its bytes, its u64 or its text, and to the array of its bytes.
C14_Equality ==
  /\ op = "eq" =>
       /\ flag <=> \A i \in 1..8 : id[i] = rhs[i]
       /\ (id = AAAABBBB /\ rhs = aaaaBBBB) => ~flag
  /\ op = "eq_back" => (flag /\ \A i \in 1..8 : id[i] = rhs[i])
  /\ op = "eq_array" => (flag /\ rhs = out.val)
  /\ (pc = "rebuilt" /\ InAlphabet(id)) => result = Ok(id)
  /\ (pc = "rebuilt" /\ op \in { "from_bytes_unchecked", "from_u64_unchecked" })
       => result = Ok(id)
  /\ (pc = "rebuilt" /\ op = "from_str_unchecked" /\ \A i \in 1..8 : id[i] < 128)
       => result = Ok(id)
  /\ (pc = "built" /\ op = "from_str_unchecked" /\ Len(arg.val) = 8)
       => eq(id, arg.val)

\* examples/basic.rs: "AAAABBBB" is not equal to "aaaaBBBB"
C14_Witness ==
  /\ op = "eq"
  /\ id = AAAABBBB
  /\ rhs = aaaaBBBB
  /\ flag = FALSE

\* the i-th byte of the u64 n, the most significant first
ByteOf(n, i) ==
  IF i % 2 = 1 THEN n[(i + 1) \div 2] \div 256 ELSE n[i \div 2] % 256

\* C15: random() makes an identifier of the one u64 that it draws: its i-th
\* byte is LETTERS[b mod 64] for the i-th byte b of the u64, the most
\* significant first; each of the 64 symbols is the image of exactly 4 of the
\* 256 bytes.
C15_Generation ==
  op = "random" =>
    /\ \A i \in 1..8 : id[i] = LETTERS[(ByteOf(arg.val, i) % 64) + 1]
    /\ \A c \in Alphabet :
         Cardinality({ b \in 0..255 : LETTERS[(b % 64) + 1] = c }) = 4

\* u64::MAX: each byte is 255, 255 mod 64 is 63 and the last letter is '-'
C15_Witness ==
  /\ op = "random"
  /\ arg.val = U64_MAX
  /\ id = << 45, 45, 45, 45, 45, 45, 45, 45 >>

\* C16: for every identifier, starts_with("") and ends_with("") are true,
\* and starts_with(s) and ends_with(s) are false for every text s that is
\* longer than 8, in characters or in bytes.
C16_EmptyAndLong ==
  op \in { "starts_with", "ends_with" } =>
    /\ rhs = <<>> => flag
    /\ Len(chars(rhs)) > 8 => ~flag
    /\ Len(rhs) > 8 => ~flag

\* the 9 characters "abcdefghi" do not start "abcdefgh"
C16_Witness ==
  /\ op = "starts_with"
  /\ id = ABCDEFGH
  /\ rhs = << 97, 98, 99, 100, 101, 102, 103, 104, 105 >>
  /\ flag = FALSE

\* the chars of the text of an identifier: one for each byte, of its value
Rendered(data) == [i \in 1..8 |-> data[i]]

\* the text cs begins, or ends, with the text ps, both taken as chars
Begins(cs, ps) ==
  Len(ps) <= Len(cs) /\ \A i \in 1..Len(ps) : cs[i] = ps[i]

Ends(cs, ps) ==
  Len(ps) <= Len(cs)
  /\ \A i \in 1..Len(ps) : cs[Len(cs) - Len(ps) + i] = ps[i]

\* C17: for every identifier and every text p of 1 to 8 characters,
\* starts_with(p) is true exactly when the text of the identifier begins with
\* p and ends_with(p) exactly when it ends with p; in particular both are
\* true of the text of the identifier itself.
C17_AsClaimed ==
  /\ (op = "starts_with" /\ Len(chars(rhs)) \in 1..8) =>
       /\ flag <=> Begins(Rendered(id), chars(rhs))
       /\ chars(rhs) = Rendered(id) => flag
  /\ (op = "ends_with" /\ Len(chars(rhs)) \in 1..8) =>
       /\ flag <=> Ends(Rendered(id), chars(rhs))
       /\ chars(rhs) = Rendered(id) => flag

\* C18 as it is claimed: the text of every identifier has 8 characters, the
\* i-th of the value of the i-th byte, and from_str_unchecked of that text
\* gives the identifier back.
C18_AsClaimed ==
  /\ op = "to_string" =>
       (Len(chars(out.val)) = 8 /\ chars(out.val) = Rendered(id))
  /\ (pc = "rebuilt" /\ op = "from_str_unchecked") => result = Ok(id)

\* C18: the text of every identifier has 8 characters, the i-th of the value
\* of the i-th byte, and two bytes for each byte above 127; from_str_unchecked
\* of that text gives the identifier back when all its bytes are below 128
\* and panics when one is not.
C18_Rendering ==
  /\ op = "to_string" =>
       /\ Len(chars(out.val)) = 8
       /\ chars(out.val) = Rendered(id)
       /\ Len(out.val) = 8 + Cardinality({ i \in 1..8 : id[i] >= 128 })
  /\ (pc = "rebuilt" /\ op = "from_str_unchecked") =>
       /\ out.val = to_string(id)
       /\ result = IF \A i \in 1..8 : id[i] < 128 THEN Ok(id) ELSE Panic

\* the text of the bytes "abcdefg" and 233 is "abcdefg" and the two bytes of
\* U+00E9: from_str_unchecked panics on its 9 bytes
C18_Witness ==
  /\ pc = "rebuilt"
  /\ op = "from_str_unchecked"
  /\ id = << 97, 98, 99, 100, 101, 102, 103, 233 >>
  /\ out.val = << 97, 98, 99, 100, 101, 102, 103, 195, 169 >>
  /\ result = Panic

\* a is before b in the lexicographic order of the bytes, unsigned
LexLess(a, b) ==
  \E k \in 1..8 : a[k] < b[k] /\ \A j \in 1..(k - 1) : a[j] = b[j]

\* C19: the order of the identifiers is total, it is the lexicographic order
\* of their 8 bytes as unsigned values and the order of their u64:
\* x < y exactly when to_u64(x) < to_u64(y), and x == y exactly when
\* to_u64(x) = to_u64(y).
C19_Ordering ==
  /\ op = "lt" =>
       /\ flag <=> LexLess(id, rhs)
       /\ flag <=> u64_lt(to_u64(id), to_u64(rhs))
       /\ eq(id, rhs) <=> to_u64(id) = to_u64(rhs)
       /\ Cardinality({ k \in 1..3 : << flag, eq(id, rhs), lt(rhs, id) >>[k] }) = 1
       /\ \A z \in Others : (flag /\ lt(rhs, z)) => lt(id, z)
  /\ op = "eq" => (flag <=> to_u64(id) = to_u64(rhs))

\* "\0bcdefgh" is before "aaaaBBBB", whose last byte is the smaller one
C19_Witness ==
  /\ op = "lt"
  /\ id = << 0, 98, 99, 100, 101, 102, 103, 104 >>
  /\ rhs = aaaaBBBB
  /\ flag = TRUE

\* C20: for 8 bytes, TryFrom of an array, of a reference to an array and of
\* a slice return what from_bytes returns, and TryFrom of a u64 returns what
\* from_u64 returns; TryFrom of a slice that does not have 8 bytes returns a
\* Conversion error: no panic, no InvalidLength, no Ok.
C20_TryFrom ==
  /\ (op \in { "try_from_array", "try_from_array_ref", "try_from_slice" }
      /\ Len(Given) = 8)
       => result = from_bytes(Given)
  /\ op = "try_from_u64" => result = from_u64(Given)
  /\ (op = "try_from_slice" /\ Len(Given) # 8) =>
       /\ result = Err("Conversion")
       /\ result.tag = "Err"
       /\ result.err # "InvalidLength"
       /\ pc = "failed"

\* a slice of 7 bytes of the alphabet
C20_Witness ==
  /\ op = "try_from_slice"
  /\ arg.val = << 97, 98, 99, 100, 101, 102, 103 >>
  /\ result = Err("Conversion")

\* the constructors that validate, or that build a fixed or a generated
\* identifier, and the ones that take their input as it is
Checked ==
  { "random", "null", "default", "from_str", "from_bytes", "from_u64",
    "try_from_array", "try_from_array_ref", "try_from_slice", "try_from_u64" }

Unchecked ==
  { "from_str_unchecked", "from_bytes_unchecked", "from_u64_unchecked" }

\* 8 bytes of the alphabet, or the 8 zero bytes of the null identifier
ValidOrNull(data) ==
  /\ Len(data) = 8
  /\ InAlphabet(data) \/ data = NULL_DATA

\* C21: an identifier variable that no unchecked constructor built, whatever
\* was copied or made null since, holds 8 bytes of the alphabet or the 8 zero
\* bytes; a storage that is neither is only held by a variable that
\* from_str_unchecked, from_bytes_unchecked or from_u64_unchecked built.
C21_ValidOrNull ==
  /\ (ctor \in Checked /\ id # <<>>) =>
       /\ ValidOrNull(id)
       /\ id = NULL_DATA => (ctor \in { "null", "default" } \/ pc = "nulled")
  /\ (ctor \in Checked /\ cp # <<>>) =>
       /\ ValidOrNull(cp)
       /\ cp = NULL_DATA =>
            (ctor \in { "null", "default" } \/ pc = "copy_nulled")
  /\ (op \in Checked /\ result.tag = "Ok") => ValidOrNull(result.data)
  /\ (id # <<>> /\ ~ValidOrNull(id)) => ctor \in Unchecked
  /\ (cp # <<>> /\ ~ValidOrNull(cp)) => ctor \in Unchecked
  /\ (result.tag = "Ok" /\ ~ValidOrNull(result.data)) =>
       (ctor \in Unchecked /\ (pc = "built" \/ op \notin Checked))

\* TryFrom of the array "abcdefgh", a copy of the identifier and make_null
\* of the copy
C21_Witness ==
  /\ ctor = "try_from_array"
  /\ op = "make_null_copy"
  /\ id = ABCDEFGH
  /\ cp = NULL_DATA

====
